---- MODULE Spec2Model ----
(***************************************************************************)
(* Format sniffers of q2_types/per_sample_sequences/_format.py.            *)
(*                                                                         *)
(* A text stream is a sequence of lines; a line is a sequence of           *)
(* one-character strings and ends with "\n", except possibly the last line *)
(* of a stream.  In manifest lines a field word such as "sample-id" is one *)
(* element: it stands for the run of ordinary characters it spells, none   *)
(* of which is ',', ' ', '#', a tab or a newline.                          *)
(***************************************************************************)
EXTENDS Integers, Sequences, FiniteSets, TLC

VARIABLES
    fmt,         \* the format class whose method is running
    fh,          \* the opened stream (text: lines; FastqGz: head bytes + records)
    pos,         \* how many lines / records have been read from fh
    pc,          \* position in the running method
    ret,         \* value returned by sniff: "none", "True" or "False"
    exc,         \* exception in flight (pc = "except") or escaped (pc = "done")
    data_lines,  \* _FastqManifestBase.sniff local
    header,      \* _FastqManifestBase.sniff local
    ids,         \* QIIME1DemuxFormat._validate local
    n,           \* how many values the range(...) of a zip has yielded
    ioerr,       \* whether the environment has failed an open or a read
    args,        \* arguments of a helper called on its own
    out          \* what that helper returned

vars == <<fmt, fh, pos, pc, ret, exc, data_lines, header, ids, n, ioerr, args, out>>

----------------------------------------------------------------------------
(* Bounds of the explored inputs *)

MaxPre == 2        \* arbitrary lines ahead of a run of well-formed entries
MaxPost == 2       \* arbitrary lines after a run of well-formed entries
MaxRows == 11      \* longest run of well-formed manifest data rows
MaxRecords == 31   \* longest run of well-formed FASTA records
MaxReads == 16     \* longest run of well-formed FASTQ records
MaxIdLen == 5      \* longest record-id given to _validate_id on its own
MaxNameLen == 2    \* longest sample-id / barcode-id given to the path maker

BoundedSeq(S, k) == UNION {[1..m -> S] : m \in 0..k}

RECURSIVE Rep(_, _)
Rep(x, k) == IF k = 0 THEN <<>> ELSE <<x>> \o Rep(x, k - 1)

----------------------------------------------------------------------------
(* Python built-ins used by the module *)

\* Python None, for a slot that otherwise holds a non-empty list of cells
None == <<>>

\* str.lstrip(chars) for a one-character chars
RECURSIVE lstrip(_, _)
lstrip(s, c) == IF s # <<>> /\ Head(s) = c THEN lstrip(Tail(s), c) ELSE s

\* str.rstrip(chars) for a one-character chars
RECURSIVE rstrip(_, _)
rstrip(s, c) ==
    IF s # <<>> /\ s[Len(s)] = c THEN rstrip(SubSeq(s, 1, Len(s) - 1), c) ELSE s

\* str.startswith(prefix) for a one-character prefix
startswith(s, c) == s # <<>> /\ Head(s) = c

\* str.split(sep): always at least one piece
RECURSIVE split(_, _)
split(s, sep) ==
    IF \E i \in 1..Len(s) : s[i] = sep
    THEN LET i == CHOOSE j \in 1..Len(s) :
                      s[j] = sep /\ \A k \in 1..(j - 1) : s[k] # sep
         IN <<SubSeq(s, 1, i - 1)>> \o split(SubSeq(s, i + 1, Len(s)), sep)
    ELSE <<s>>

\* min(a, b), as a slice or zip bound
Min(a, b) == IF a < b THEN a ELSE b

\* file.readline(): the next line, '' at end of file
readline(f, p) == IF p < Len(f) THEN f[p + 1] ELSE <<>>

\* Exception classes: the builtin hierarchy, yaml.YAMLError(Exception) and
\* skbio.io.FASTQFormatError(FileFormatError(Exception))
Bases(cls) ==
    CASE cls = "ValueError" -> {"ValueError", "Exception"}
      [] cls = "OSError" -> {"OSError", "Exception"}
      [] cls = "YAMLError" -> {"YAMLError", "Exception"}
      [] cls = "FASTQFormatError" -> {"FASTQFormatError", "FileFormatError", "Exception"}
      [] OTHER -> {"Exception"}

\* whether `except cls:` catches an exception of class e
Catches(cls, e) == cls \in Bases(e)

----------------------------------------------------------------------------
(* _FastqManifestBase *)

ManifestFormats == {"FastqManifestFormat", "FastqAbsolutePathManifestFormat"}

EXPECTED_HEADER(cls) ==
    IF cls = "FastqManifestFormat"
    THEN << <<"sample-id">>, <<"filename">>, <<"direction">> >>
    ELSE << <<"sample-id">>, <<"absolute-filepath">>, <<"direction">> >>

\* while data_lines < 10
SniffDataLines == 10

\* line.lstrip(' ') == '\n'
IsBlankLine(line) == lstrip(line, " ") = <<"\n">>

\* line.startswith('#')
IsCommentLine(line) == startswith(line, "#")

\* line.rstrip('\n').split(',')
Cells(line) == split(rstrip(line, "\n"), ",")

\* mutant: only the number of header cells is compared
HeaderMatchesLoose(cells, cls) == Len(cells) = Len(EXPECTED_HEADER(cls))

\* cells != self.EXPECTED_HEADER, negated
HeaderMatches(cells, cls) == cells = EXPECTED_HEADER(cls)

\* mutant: a row may be shorter than the header
RowConformsAtMost(cells, h) == Len(cells) <= Len(h)

\* len(cells) != len(header), negated
RowConforms(cells, h) == Len(cells) = Len(h)

\* return header is not None and data_lines > 0
ManifestVerdict(h, d) == h # None /\ d > 0

Bool(b) == IF b THEN "True" ELSE "False"

ManifestLine == readline(fh, pos)

ManifestFrame == UNCHANGED <<fmt, fh, ids, n, ioerr, args, out>>

\* with self.open() as fh: data_lines = 0; header = None
ManifestOpen ==
    /\ fmt \in ManifestFormats /\ pc = "open"
    /\ pc' = "loop" /\ data_lines' = 0 /\ header' = None
    /\ UNCHANGED <<pos, ret, exc>> /\ ManifestFrame

\* the while condition fails: fall through to the return
ManifestLoopEnd ==
    /\ fmt \in ManifestFormats /\ pc = "loop"
    /\ ~(data_lines < SniffDataLines)
    /\ pc' = "return"
    /\ UNCHANGED <<pos, ret, exc, data_lines, header>> /\ ManifestFrame

\* line == '': break
ManifestEOF ==
    /\ fmt \in ManifestFormats /\ pc = "loop"
    /\ data_lines < SniffDataLines
    /\ ManifestLine = <<>>
    /\ pc' = "return"
    /\ UNCHANGED <<pos, ret, exc, data_lines, header>> /\ ManifestFrame

\* blank line: continue
ManifestBlank ==
    /\ fmt \in ManifestFormats /\ pc = "loop"
    /\ data_lines < SniffDataLines
    /\ ManifestLine # <<>>
    /\ IsBlankLine(ManifestLine)
    /\ pos' = pos + 1
    /\ UNCHANGED <<pc, ret, exc, data_lines, header>> /\ ManifestFrame

\* comment line: continue
ManifestComment ==
    /\ fmt \in ManifestFormats /\ pc = "loop"
    /\ data_lines < SniffDataLines
    /\ ManifestLine # <<>>
    /\ ~IsBlankLine(ManifestLine)
    /\ IsCommentLine(ManifestLine)
    /\ pos' = pos + 1
    /\ UNCHANGED <<pc, ret, exc, data_lines, header>> /\ ManifestFrame

ManifestIsCellLine ==
    /\ fmt \in ManifestFormats /\ pc = "loop"
    /\ data_lines < SniffDataLines
    /\ ManifestLine # <<>>
    /\ ~IsBlankLine(ManifestLine)
    /\ ~IsCommentLine(ManifestLine)

\* header is None: the cells must be the expected header
ManifestHeader ==
    /\ ManifestIsCellLine
    /\ header = None
    /\ pos' = pos + 1
    /\ IF ~HeaderMatches(Cells(ManifestLine), fmt)
       THEN pc' = "done" /\ ret' = "False" /\ header' = header
       ELSE pc' = pc /\ ret' = ret /\ header' = Cells(ManifestLine)
    /\ UNCHANGED <<exc, data_lines>> /\ ManifestFrame

\* header is set: the row must have as many cells as the header
ManifestRow ==
    /\ ManifestIsCellLine
    /\ header # None
    /\ pos' = pos + 1
    /\ IF ~RowConforms(Cells(ManifestLine), header)
       THEN pc' = "done" /\ ret' = "False" /\ data_lines' = data_lines
       ELSE pc' = pc /\ ret' = ret /\ data_lines' = data_lines + 1
    /\ UNCHANGED <<exc, header>> /\ ManifestFrame

ManifestReturn ==
    /\ fmt \in ManifestFormats /\ pc = "return"
    /\ pc' = "done" /\ ret' = Bool(ManifestVerdict(header, data_lines))
    /\ UNCHANGED <<pos, exc, data_lines, header>> /\ ManifestFrame

ManifestNext ==
    \/ ManifestOpen
    \/ ManifestLoopEnd
    \/ ManifestEOF
    \/ ManifestBlank
    \/ ManifestComment
    \/ ManifestHeader
    \/ ManifestRow
    \/ ManifestReturn

(* Manifest streams explored *)

HeaderLine(cls) ==
    IF cls = "FastqManifestFormat"
    THEN <<"sample-id", ",", "filename", ",", "direction", "\n">>
    ELSE <<"sample-id", ",", "absolute-filepath", ",", "direction", "\n">>

GoodRow == <<"x", ",", "x", ",", "x", "\n">>

ManifestLines ==
    { HeaderLine("FastqManifestFormat"),
      HeaderLine("FastqAbsolutePathManifestFormat"),
      <<"filename", ",", "sample-id", ",", "direction", "\n">>,
      GoodRow,
      <<"x", ",", "x", "\n">>,
      <<" ", " ", "\n">>,
      <<"\t", "\n">>,
      <<"#", "x", "\n">> }

\* lines that can only end a stream: no trailing newline
ManifestLastLines ==
    { <<"x", ",", "x", ",", "x">>, <<" ">>, <<"sample-id", ",", "filename", ",", "direction">> }

ManifestTails ==
    BoundedSeq(ManifestLines \cup {<<"\n">>}, MaxPost)
    \cup { t \o <<l>> : t \in BoundedSeq(ManifestLines, MaxPost - 1), l \in ManifestLastLines }

ManifestStreams(cls) ==
    { p \o Rep(GoodRow, k) : p \in BoundedSeq(ManifestLines, MaxPre), k \in 0..MaxRows }
    \cup
    { <<HeaderLine(cls)>> \o Rep(GoodRow, k) \o t : k \in 0..MaxRows, t \in ManifestTails }

Start(cls, stream) ==
    /\ fmt = cls /\ fh = stream
    /\ pos = 0 /\ pc = "open" /\ ret = "none" /\ exc = "none"
    /\ data_lines = 0 /\ header = None /\ ids = {} /\ n = 0
    /\ ioerr = FALSE /\ args = <<>> /\ out = <<>>

ManifestInit == \E cls \in ManifestFormats : \E s \in ManifestStreams(cls) : Start(cls, s)

SpecManifest == ManifestInit /\ [][ManifestNext]_vars

----------------------------------------------------------------------------
(* Manifest claims, stated on the stream itself *)

\* a line holding nothing but spaces before its newline
OnlySpaces(line) ==
    /\ line # <<>> /\ line[Len(line)] = "\n"
    /\ \A i \in 1..(Len(line) - 1) : line[i] = " "

\* a line holding nothing but whitespace (spaces, tabs) before its newline
OnlyWhitespace(line) ==
    /\ line # <<>> /\ line[Len(line)] = "\n"
    /\ \A i \in 1..(Len(line) - 1) : line[i] \in {" ", "\t"}

StartsWithHash(line) == line # <<>> /\ line[1] = "#"

SkippedLine(line) == OnlySpaces(line) \/ StartsWithHash(line)

\* the non-blank, non-comment lines of a stream, in order
RECURSIVE Meaningful(_)
Meaningful(s) ==
    IF s = <<>> THEN <<>>
    ELSE IF SkippedLine(Head(s)) THEN Meaningful(Tail(s))
    ELSE <<Head(s)>> \o Meaningful(Tail(s))

\* number of comma-separated cells of a line
CellCount(line) == 1 + Cardinality({i \in 1..Len(line) : line[i] = ","})

\* the line spells the expected header, with or without its newline
IsExpectedHeaderLine(line, cls) ==
    line \in {HeaderLine(cls), SubSeq(HeaderLine(cls), 1, Len(HeaderLine(cls)) - 1)}

ManifestDone == fmt \in ManifestFormats /\ pc = "done"

HasHeader(M) == M # <<>> /\ IsExpectedHeaderLine(M[1], fmt)

\* the data rows examined: the first SniffDataLines rows after the header
ScannedRows(M) == 2..Min(Len(M), SniffDataLines + 1)

\* C1 as stated: a correct header and at least one data row with the header's
\* cell count give true; a first meaningful line that is not the header gives
\* false; a header with no data row gives false.
C1_Original ==
    ManifestDone =>
        LET M == Meaningful(fh) IN
        /\ (HasHeader(M) /\ \E i \in 2..Len(M) : CellCount(M[i]) = CellCount(M[1]))
               => ret = "True"
        /\ ~HasHeader(M) => ret = "False"
        /\ (HasHeader(M) /\ Len(M) = 1) => ret = "False"

\* C1 amended: a correct header, at least one data row, and every one of the
\* first 10 data rows having the header's cell count give true; a first
\* meaningful line that is not the header gives false; a header with no data
\* row gives false.
C1_HeaderAndRows ==
    ManifestDone =>
        LET M == Meaningful(fh) IN
        /\ (HasHeader(M) /\ Len(M) >= 2
               /\ \A i \in ScannedRows(M) : CellCount(M[i]) = CellCount(M[1]))
               => ret = "True"
        /\ ~HasHeader(M) => ret = "False"
        /\ (HasHeader(M) /\ Len(M) = 1) => ret = "False"

C1_Witness ==
    /\ ManifestDone /\ ret = "True"
    /\ fmt = "FastqAbsolutePathManifestFormat"
    /\ Len(Meaningful(fh)) = 2 /\ Len(fh) > 2

\* C2 as stated: with a correct header, a data row of another cell count
\* anywhere in the stream gives false.
C2_Original ==
    ManifestDone =>
        LET M == Meaningful(fh) IN
        (HasHeader(M) /\ \E i \in 2..Len(M) : CellCount(M[i]) # CellCount(M[1]))
            => ret = "False"

\* C2 amended: with a correct header, a data row of another cell count among
\* the first 10 data rows gives false, wherever it stands among them.
C2_BadRowInScannedRows ==
    ManifestDone =>
        LET M == Meaningful(fh) IN
        (HasHeader(M) /\ \E i \in ScannedRows(M) : CellCount(M[i]) # CellCount(M[1]))
            => ret = "False"

C2_Witness ==
    /\ ManifestDone /\ ret = "False"
    /\ LET M == Meaningful(fh) IN
           /\ HasHeader(M) /\ Len(M) = SniffDataLines + 1
           /\ CellCount(M[Len(M)]) # CellCount(M[1])
           /\ \A i \in 2..(Len(M) - 1) : CellCount(M[i]) = CellCount(M[1])

\* C10 as stated: a line of only whitespace before its newline, or a line
\* starting with '#', is skipped wherever it is read: the scan goes on and the
\* data-line counter, the header slot and the verdict are left alone.
C10_Original ==
    [][(/\ fmt \in ManifestFormats /\ pc = "loop" /\ data_lines < SniffDataLines
        /\ (OnlyWhitespace(ManifestLine) \/ StartsWithHash(ManifestLine)))
       => (pc' = "loop" /\ pos' = pos + 1 /\ UNCHANGED <<data_lines, header, ret>>)]_vars

----------------------------------------------------------------------------
(* QIIME1DemuxFormat *)

\* self._validate(filehandle, num_records=30)
SniffNumRecords == 30

\* str.isspace() for one character
isspace(c) == c \in {" ", "\t", "\n"}

\* str.split(maxsplit=1)[0]: the first whitespace-delimited token
RECURSIVE TakeToken(_)
TakeToken(s) ==
    IF s = <<>> \/ isspace(Head(s)) THEN <<>> ELSE <<Head(s)>> \o TakeToken(Tail(s))

RECURSIVE SkipSpace(_)
SkipSpace(s) == IF s # <<>> /\ isspace(Head(s)) THEN SkipSpace(Tail(s)) ELSE s

FirstToken(s) == TakeToken(SkipSpace(s))

\* mutant: str.split(sep, maxsplit=1), cutting at the leftmost separator
split1(s, sep) ==
    IF \E i \in 1..Len(s) : s[i] = sep
    THEN LET i == CHOOSE j \in 1..Len(s) :
                      s[j] = sep /\ \A k \in 1..(j - 1) : s[k] # sep
         IN <<SubSeq(s, 1, i - 1), SubSeq(s, i + 1, Len(s))>>
    ELSE <<s>>

\* str.rsplit(sep, maxsplit=1)
rsplit1(s, sep) ==
    IF \E i \in 1..Len(s) : s[i] = sep
    THEN LET i == CHOOSE j \in 1..Len(s) :
                      s[j] = sep /\ \A k \in (j + 1)..Len(s) : s[k] # sep
         IN <<SubSeq(s, 1, i - 1), SubSeq(s, i + 1, Len(s))>>
    ELSE <<s>>

\* all(pieces) over strings: none is empty
all(pieces) == \A i \in 1..Len(pieces) : pieces[i] # <<>>

\* _parse_id raises when the header does not start with '>'
ParseIdRaises(h) == ~startswith(h, ">")

\* _parse_id, for a header that starts with '>'
parse_id(h) ==
    LET rest == Tail(h)
    IN IF rest # <<>> /\ ~isspace(rest[1]) THEN FirstToken(rest) ELSE <<>>

\* _validate_id raises
ValidateIdRaises(id) ==
    LET pieces == rsplit1(id, "_") IN Len(pieces) # 2 \/ ~all(pieces)

\* the characters skbio.DNA accepts: IUPAC bases, degenerate codes and gaps
DNAAlphabet ==
    {"A", "C", "G", "T", "R", "Y", "S", "W", "K", "M", "B", "D", "H", "V", "N", "-", "."}

\* mutant: the emptiness test is dropped
validate_seq_unchecked(seq) ==
    IF \A i \in 1..Len(seq) : seq[i] \in DNAAlphabet THEN "none" ELSE "ValueError"

\* _validate_seq: the class it raises, "none" when it returns
validate_seq(seq) ==
    IF seq # <<>>
    THEN IF \A i \in 1..Len(seq) : seq[i] \in DNAAlphabet THEN "none" ELSE "ValueError"
    ELSE "Exception"

\* The loop body of _validate on one (header, seq) pair: the class of the
\* exception it raises, "none" when the record passes every check.
RecordFailure(hline, sline, seen) ==
    LET h == rstrip(hline, "\n")
        q == rstrip(sline, "\n")
    IN IF ParseIdRaises(h) THEN "Exception"
       ELSE IF parse_id(h) \in seen THEN "Exception"
       ELSE IF ValidateIdRaises(parse_id(h)) THEN "Exception"
       ELSE validate_seq(q)

\* mutant: the empty-file check is never taken
NotIdsNever(seen) == FALSE

\* not ids
NotIds(seen) == seen = {}

IsDemux == fmt = "QIIME1DemuxFormat"

DemuxFrame == UNCHANGED <<fmt, fh, data_lines, header, ioerr, args, out>>

\* sniff: with self.open() as filehandle; _validate: ids = set()
DemuxOpen ==
    /\ IsDemux /\ pc = "open"
    /\ pc' = "loop" /\ ids' = {} /\ n' = 0
    /\ UNCHANGED <<pos, ret, exc>> /\ DemuxFrame

\* zip_longest finds the file exhausted: the for loop ends
DemuxExhausted ==
    /\ IsDemux /\ pc = "loop"
    /\ pos >= Len(fh)
    /\ pc' = "after"
    /\ UNCHANGED <<pos, ret, exc, ids, n>> /\ DemuxFrame

\* zip draws the next pair from zip_longest, then finds range(num_records)
\* exhausted: the pair is dropped and the for loop ends
DemuxRangeExhausted ==
    /\ IsDemux /\ pc = "loop"
    /\ pos < Len(fh)
    /\ n = SniffNumRecords
    /\ pos' = Min(pos + 2, Len(fh))
    /\ pc' = "after"
    /\ UNCHANGED <<ret, exc, ids, n>> /\ DemuxFrame

\* seq is None: not exactly two lines per record
DemuxIncomplete ==
    /\ IsDemux /\ pc = "loop"
    /\ pos + 1 = Len(fh)
    /\ n < SniffNumRecords
    /\ pos' = pos + 1 /\ n' = n + 1
    /\ pc' = "except" /\ exc' = "Exception"
    /\ UNCHANGED <<ret, ids>> /\ DemuxFrame

\* one of the checks of the loop body raises
DemuxRecordRejected ==
    /\ IsDemux /\ pc = "loop"
    /\ pos + 2 <= Len(fh)
    /\ n < SniffNumRecords
    /\ RecordFailure(fh[pos + 1], fh[pos + 2], ids) # "none"
    /\ pos' = pos + 2 /\ n' = n + 1
    /\ pc' = "except" /\ exc' = RecordFailure(fh[pos + 1], fh[pos + 2], ids)
    /\ UNCHANGED <<ret, ids>> /\ DemuxFrame

\* every check passes: ids.add(id)
DemuxRecordAccepted ==
    /\ IsDemux /\ pc = "loop"
    /\ pos + 2 <= Len(fh)
    /\ n < SniffNumRecords
    /\ RecordFailure(fh[pos + 1], fh[pos + 2], ids) = "none"
    /\ pos' = pos + 2 /\ n' = n + 1
    /\ ids' = ids \cup {parse_id(rstrip(fh[pos + 1], "\n"))}
    /\ UNCHANGED <<pc, ret, exc>> /\ DemuxFrame

\* if not ids: raise Exception(); otherwise _validate returns and sniff's
\* else clause returns True
DemuxAfterLoop ==
    /\ IsDemux /\ pc = "after"
    /\ IF NotIds(ids)
       THEN pc' = "except" /\ exc' = "Exception" /\ ret' = ret
       ELSE pc' = "done" /\ exc' = exc /\ ret' = "True"
    /\ UNCHANGED <<pos, ids, n>> /\ DemuxFrame

\* sniff: except Exception: return False
DemuxExcept ==
    /\ IsDemux /\ pc = "except"
    /\ IF Catches("Exception", exc)
       THEN pc' = "done" /\ exc' = "none" /\ ret' = "False"
       ELSE pc' = "done" /\ exc' = exc /\ ret' = ret
    /\ UNCHANGED <<pos, ids, n>> /\ DemuxFrame

DemuxNext ==
    \/ DemuxOpen
    \/ DemuxExhausted
    \/ DemuxRangeExhausted
    \/ DemuxIncomplete
    \/ DemuxRecordRejected
    \/ DemuxRecordAccepted
    \/ DemuxAfterLoop
    \/ DemuxExcept

(* Demultiplexed FASTA streams explored *)

Digit == <<"0", "1", "2", "3", "4", "5", "6", "7", "8", "9">>

\* ">s_<ii>" and "AC": the i-th record of a run of well-formed records
GoodRecord(i) ==
    << <<">", "s", "_", Digit[(i \div 10) + 1], Digit[(i % 10) + 1], "\n">>,
       <<"A", "C", "\n">> >>

RECURSIVE GoodRecords(_)
GoodRecords(k) == IF k = 0 THEN <<>> ELSE GoodRecords(k - 1) \o GoodRecord(k - 1)

DemuxLines ==
    { <<">", "s", "_", "0", "0", " ", "x", "\n">>,
      <<">", "a", "_", "b", "_", "0", "\n">>,
      <<">", "s", "0", "\n">>,
      <<">", "_", "0", "\n">>,
      <<">", "s", "_", "\n">>,
      <<">", "\n">>,
      <<">", " ", "s", "_", "0", "0", "\n">>,
      <<"s", "_", "0", "0", "\n">>,
      <<"A", "C", "\n">>,
      <<"A", "X", "\n">>,
      <<"\n">> }

DemuxTailLines ==
    { <<">", "s", "_", "0", "0", "\n">>,
      <<">", "t", "_", "0", "\t", "x", "\n">>,
      <<">", "s", "0", "\n">>,
      <<"A", "C", "\n">>,
      <<"A", "X", "\n">> }

DemuxLastLines == { <<"N", "-">>, <<">", "t", "_", "0">> }

DemuxTails ==
    BoundedSeq(DemuxTailLines, MaxPost)
    \cup { t \o <<l>> : t \in BoundedSeq(DemuxTailLines, MaxPost - 1), l \in DemuxLastLines }

DemuxStreams ==
    { p \o GoodRecords(k) : p \in BoundedSeq(DemuxLines, MaxPre), k \in 0..MaxRecords }
    \cup
    { GoodRecords(k) \o t : k \in 0..MaxRecords, t \in DemuxTails }

DemuxInit == \E s \in DemuxStreams : Start("QIIME1DemuxFormat", s)

SpecDemux == DemuxInit /\ [][DemuxNext]_vars

----------------------------------------------------------------------------
(* YamlFormat *)

RECURSIVE MaxLineLen(_)
MaxLineLen(doc) ==
    IF doc = <<>> THEN 0
    ELSE IF Len(Head(doc)) > MaxLineLen(Tail(doc)) THEN Len(Head(doc))
    ELSE MaxLineLen(Tail(doc))

\* yaml.safe_load(fh) raises yaml.YAMLError: here, on a flow collection that
\* is opened and never closed.  An empty stream holds no document and loads
\* as None without raising.
YamlLoadRaises(doc) ==
    LET Count(S) == Cardinality({c \in {<<i, j>> : i \in 1..Len(doc), j \in 1..MaxLineLen(doc)} :
                                   c[2] <= Len(doc[c[1]]) /\ doc[c[1]][c[2]] \in S})
    IN Count({"{", "["}) # Count({"}", "]"})

IsYaml == fmt = "YamlFormat"

YamlFrame == UNCHANGED <<fmt, fh, pos, data_lines, header, ids, n, ioerr, args, out>>

\* with self.open() as fh
YamlOpen ==
    /\ IsYaml /\ pc = "open"
    /\ pc' = "load"
    /\ UNCHANGED <<ret, exc>> /\ YamlFrame

\* try: yaml.safe_load(fh); after the with block: return True
YamlLoad ==
    /\ IsYaml /\ pc = "load"
    /\ IF YamlLoadRaises(fh)
       THEN pc' = "except" /\ exc' = "YAMLError" /\ ret' = ret
       ELSE pc' = "done" /\ exc' = exc /\ ret' = "True"
    /\ YamlFrame

\* except yaml.YAMLError: return False
YamlExcept ==
    /\ IsYaml /\ pc = "except"
    /\ IF Catches("YAMLError", exc)
       THEN pc' = "done" /\ exc' = "none" /\ ret' = "False"
       ELSE pc' = "done" /\ exc' = exc /\ ret' = ret
    /\ YamlFrame

YamlNext ==
    \/ YamlOpen
    \/ YamlLoad
    \/ YamlExcept

YamlLines ==
    { <<"k", ":", " ", "v", "\n">>,
      <<"{", "k", ":", "v", "}">>,
      <<"{", "k", ":", "\n">>,
      <<"[", "v", "\n">>,
      <<"#", "\n">> }

YamlStreams == BoundedSeq(YamlLines, MaxPre)

YamlInit == \E s \in YamlStreams : Start("YamlFormat", s)

----------------------------------------------------------------------------
(* FastqGzFormat *)

\* b'\x1f\x8b'
GzipMagic == <<31, 139>>

\* zip(generator, range(15))
SniffNumReads == 15

\* fh.read(2)[:2]
Read2(bytes) == SubSeq(bytes, 1, Min(2, Len(bytes)))

IsFastq == fmt = "FastqGzFormat"

FastqFrame == UNCHANGED <<fmt, fh, data_lines, header, ids, ioerr, args, out>>

\* with self.open() as fh: if fh.read(2)[:2] != b'\x1f\x8b': return False
FastqMagic ==
    /\ IsFastq /\ pc = "open"
    /\ IF Read2(fh.head) # GzipMagic
       THEN pc' = "done" /\ ret' = "False"
       ELSE pc' = "detect" /\ ret' = ret
    /\ UNCHANGED <<pos, exc, n>> /\ FastqFrame

\* if sniffer(str(self))[0]: ... ; return False
FastqDetect ==
    /\ IsFastq /\ pc = "detect"
    /\ IF fh.sniffed
       THEN pc' = "loop" /\ ret' = ret
       ELSE pc' = "done" /\ ret' = "False"
    /\ n' = 0
    /\ UNCHANGED <<pos, exc>> /\ FastqFrame

\* zip asks the generator for a record and the generator is exhausted:
\* the for loop ends; return True
FastqExhausted ==
    /\ IsFastq /\ pc = "loop"
    /\ pos >= Len(fh.records)
    /\ pc' = "done" /\ ret' = "True"
    /\ UNCHANGED <<pos, exc, n>> /\ FastqFrame

\* zip asks the generator for a record and building it raises
FastqRecordRaises ==
    /\ IsFastq /\ pc = "loop"
    /\ pos < Len(fh.records)
    /\ fh.records[pos + 1] # "ok"
    /\ pos' = pos + 1
    /\ pc' = "except" /\ exc' = fh.records[pos + 1]
    /\ UNCHANGED <<ret, n>> /\ FastqFrame

\* zip has drawn a record from the generator and then finds range(15)
\* exhausted: the record is dropped, the for loop ends; return True
FastqRangeExhausted ==
    /\ IsFastq /\ pc = "loop"
    /\ pos < Len(fh.records)
    /\ fh.records[pos + 1] = "ok"
    /\ n = SniffNumReads
    /\ pos' = pos + 1
    /\ pc' = "done" /\ ret' = "True"
    /\ UNCHANGED <<exc, n>> /\ FastqFrame

\* zip yields (seq, _): pass
FastqRecord ==
    /\ IsFastq /\ pc = "loop"
    /\ pos < Len(fh.records)
    /\ fh.records[pos + 1] = "ok"
    /\ n < SniffNumReads
    /\ pos' = pos + 1 /\ n' = n + 1
    /\ UNCHANGED <<pc, ret, exc>> /\ FastqFrame

\* except ValueError: pass; return False
FastqExcept ==
    /\ IsFastq /\ pc = "except"
    /\ IF Catches("ValueError", exc)
       THEN pc' = "done" /\ exc' = "none" /\ ret' = "False"
       ELSE pc' = "done" /\ exc' = exc /\ ret' = ret
    /\ UNCHANGED <<pos, n>> /\ FastqFrame

FastqNext ==
    \/ FastqMagic
    \/ FastqDetect
    \/ FastqExhausted
    \/ FastqRecordRaises
    \/ FastqRangeExhausted
    \/ FastqRecord
    \/ FastqExcept

(* FASTQ files explored.  A file is its leading bytes, the verdict of
   skbio's 'fastq' sniffer on it, and, per record of its content, what
   building that record as skbio.DNA does: "ok", "ValueError" (a character
   outside the DNA alphabet) or "FASTQFormatError" (broken record framing). *)

FastqHeads == { <<>>, <<31>>, <<31, 139, 8>>, <<139, 31, 8>>, <<64, 83, 49>> }

ReadOutcomes == {"ok", "ValueError", "FASTQFormatError"}

FastqRecordSeqs ==
    { p \o Rep("ok", k) : p \in BoundedSeq(ReadOutcomes, MaxPre), k \in 0..MaxReads }
    \cup
    { Rep("ok", k) \o t : k \in 0..MaxReads, t \in BoundedSeq(ReadOutcomes, MaxPost) }

\* skbio's sniffer reads the first 10 records: it can only say yes to a file
\* that has a record and whose first 10 records are framed correctly
SnifferMaySayYes(h, r) ==
    /\ Len(h) > 2 /\ r # <<>>
    /\ \A i \in 1..Min(Len(r), 10) : r[i] # "FASTQFormatError"

FastqFiles ==
    { [head |-> h, sniffed |-> d, records |-> r] :
        h \in FastqHeads, d \in BOOLEAN, r \in FastqRecordSeqs }

FastqInit ==
    \E f \in FastqFiles :
        /\ Len(f.head) <= 2 => f.records = <<>>
        /\ f.sniffed => SnifferMaySayYes(f.head, f.records)
        /\ Start("FastqGzFormat", f)

SpecFastq == FastqInit /\ [][FastqNext]_vars

----------------------------------------------------------------------------
(* All four sniffers *)

SniffInit == ManifestInit \/ DemuxInit \/ YamlInit \/ FastqInit

SniffNext == ManifestNext \/ DemuxNext \/ YamlNext \/ FastqNext

SpecSniff == SniffInit /\ [][SniffNext]_vars

(* The same, in an environment where opening or reading the file can fail *)

IOFrame == UNCHANGED <<fmt, fh, pos, ret, data_lines, header, ids, n, args, out>>

\* self.open() (and, in FastqGzFormat, fh.read(2)) fails: every sniff does
\* this outside of any try block
OpenFails ==
    /\ pc = "open"
    /\ ioerr' = TRUE /\ exc' = "OSError" /\ pc' = "done"
    /\ IOFrame

\* a read of the next line or record fails: fh.readline() in the manifest
\* loop (no try block); the reads made by yaml.safe_load, by the skbio
\* generator and by zip_longest in _validate (each inside sniff's try block)
ReadFails ==
    /\ \/ fmt \in ManifestFormats /\ pc = "loop" /\ data_lines < SniffDataLines
       \/ IsYaml /\ pc = "load"
       \/ IsFastq /\ pc = "loop"
       \/ IsDemux /\ pc = "loop"
    /\ ioerr' = TRUE /\ exc' = "OSError"
    /\ pc' = IF fmt \in ManifestFormats THEN "done" ELSE "except"
    /\ IOFrame

SpecIO == SniffInit /\ [][SniffNext \/ OpenFails \/ ReadFails]_vars

----------------------------------------------------------------------------
(* QIIME1DemuxFormat._parse_id and _validate_id on a header of their own *)

HelperFrame == UNCHANGED <<fmt, fh, pos, ret, data_lines, header, ids, n, ioerr, args>>

\* id = self._parse_id(header), for a header that starts with '>'
IdParse ==
    /\ IsDemux /\ pc = "parse_id"
    /\ ~ParseIdRaises(args)
    /\ out' = parse_id(args) /\ pc' = "validate_id"
    /\ exc' = exc /\ HelperFrame

\* self._validate_id(id)
IdValidate ==
    /\ IsDemux /\ pc = "validate_id"
    /\ exc' = IF ValidateIdRaises(out) THEN "Exception" ELSE "none"
    /\ pc' = "id_done"
    /\ out' = out /\ HelperFrame

IdChars == {"a", "b", "_", "0"}

\* '>' + id, alone or followed by a description; or '>' + space + id
IdHeaders ==
    { p \o i \o d : p \in {<<">">>, <<">", " ">>},
                    i \in BoundedSeq(IdChars, MaxIdLen),
                    d \in {<<>>, <<" ", "x", "_">>, <<"\t", "x">>} }

IdInit ==
    \E h \in IdHeaders :
        /\ fmt = "QIIME1DemuxFormat" /\ fh = <<>>
        /\ pos = 0 /\ pc = "parse_id" /\ ret = "none" /\ exc = "none"
        /\ data_lines = 0 /\ header = None /\ ids = {} /\ n = 0
        /\ ioerr = FALSE /\ args = h /\ out = <<>>

SpecId == IdInit /\ [][IdParse \/ IdValidate]_vars

----------------------------------------------------------------------------
(* CasavaOneEightSingleLanePerSampleDirFmt *)

Max(a, b) == IF a > b THEN a ELSE b

\* decimal digits of a natural number
RECURSIVE digits(_)
digits(i) == IF i < 10 THEN <<Digit[i + 1]>> ELSE digits(i \div 10) \o <<Digit[(i % 10) + 1]>>

\* '%d' % i
FormatD(i) == IF i < 0 THEN <<"-">> \o digits(0 - i) ELSE digits(i)

\* mutant: the lane is written without zero padding
FormatNoPad(i) == FormatD(i)

\* '%03d' % i: zero-padded, after the sign, to a width of at least 3
Format03d(i) ==
    LET sign == IF i < 0 THEN <<"-">> ELSE <<>>
        body == IF i < 0 THEN digits(0 - i) ELSE digits(i)
    IN sign \o Rep("0", Max(0, 3 - Len(sign) - Len(body))) \o body

PathSuffix == <<"_", "0", "0", "1", ".", "f", "a", "s", "t", "q", ".", "g", "z">>

\* '%s_%s_L%03d_R%d_001.fastq.gz' % (sample_id, barcode_id, lane_number, read_number)
sequences_path_maker(sample_id, barcode_id, lane_number, read_number) ==
    sample_id \o <<"_">> \o barcode_id \o <<"_", "L">> \o Format03d(lane_number)
        \o <<"_", "R">> \o FormatD(read_number) \o PathSuffix

DigitChars == {Digit[i] : i \in 1..10}

\* the whole name matches L[0-9][0-9][0-9]_R[12]_001\.fastq\.gz
MatchesLaneReadSuffix(t) ==
    /\ Len(t) = 7 + Len(PathSuffix)
    /\ t[1] = "L"
    /\ \A i \in 2..4 : t[i] \in DigitChars
    /\ t[5] = "_" /\ t[6] = "R"
    /\ t[7] \in {"1", "2"}
    /\ SubSeq(t, 8, Len(t)) = PathSuffix

\* the whole name matches .+_.+_L[0-9][0-9][0-9]_R[12]_001\.fastq\.gz
sequences_pathspec(name) ==
    \E i, j \in 1..Len(name) :
        /\ 1 < i /\ i + 1 < j
        /\ name[i] = "_" /\ name[j] = "_"
        /\ \A k \in 1..(j - 1) : name[k] # "\n"
        /\ MatchesLaneReadSuffix(SubSeq(name, j + 1, Len(name)))

IsCasava == fmt = "CasavaOneEightSingleLanePerSampleDirFmt"

PathMaker ==
    /\ IsCasava /\ pc = "path_maker"
    /\ out' = sequences_path_maker(args[1], args[2], args[3], args[4])
    /\ pc' = "path_made"
    /\ exc' = exc /\ HelperFrame

NameChars == {"a", "_", "1"}

LaneNumbers == {-1, 0, 7, 42, 999, 1000}

ReadNumbers == {0, 1, 2, 3}

PathInit ==
    \E s, b \in BoundedSeq(NameChars, MaxNameLen) : \E l \in LaneNumbers : \E r \in ReadNumbers :
        /\ fmt = "CasavaOneEightSingleLanePerSampleDirFmt" /\ fh = <<>>
        /\ pos = 0 /\ pc = "path_maker" /\ ret = "none" /\ exc = "none"
        /\ data_lines = 0 /\ header = None /\ ids = {} /\ n = 0
        /\ ioerr = FALSE /\ args = <<s, b, l, r>> /\ out = <<>>

SpecPath == PathInit /\ [][PathMaker]_vars

----------------------------------------------------------------------------
(* Claims about the sniffers *)

EmptyFile == IF IsFastq THEN fh.head = <<>> /\ fh.records = <<>> ELSE fh = <<>>

\* C3 as stated: sniff on an empty file returns false, for every format.
C3_Original == (pc = "done" /\ EmptyFile) => (ret = "False" /\ exc = "none")

\* C3 amended: sniff on an empty file returns false for the manifest
\* variants, FastqGzFormat and QIIME1DemuxFormat, and true for YamlFormat.
C3_EmptyFile ==
    (pc = "done" /\ EmptyFile) =>
        (exc = "none" /\ ret = IF IsYaml THEN "True" ELSE "False")

C3_Witness == pc = "done" /\ EmptyFile /\ IsDemux /\ ret = "False" /\ n = 0

\* the gzip magic check and the FASTQ detection have both succeeded
FastqDetected == Read2(fh.head) = GzipMagic /\ fh.sniffed

\* C4: once the magic check and the detection have succeeded, the first 15
\* records decide: if each of them (or every record, when there are fewer)
\* is a valid DNA record, sniff returns true whatever follows, and no record
\* beyond the 15th is materialized.
C4_First15Decide ==
    IsFastq =>
        /\ pos <= SniffNumReads
        /\ ( /\ pc = "done" /\ FastqDetected
             /\ \A i \in 1..Min(Len(fh.records), SniffNumReads) : fh.records[i] = "ok" )
           => ret = "True"

\* C5: an alphabet or framing error signalled while FastqGzFormat.sniff
\* materializes records, and any failure raised by QIIME1DemuxFormat._validate,
\* ends the sniff call by returning false: no exception leaves sniff.
C5_NoContentErrorEscapes ==
    ((IsFastq \/ IsDemux) /\ pc = "done") =>
        /\ exc = "none"
        /\ ret \in {"True", "False"}
        /\ (IsFastq /\ pos > 0 /\ fh.records[pos] # "ok") => ret = "False"

\* C6: when opening the stream or a read from it fails with an I/O error,
\* the sniff call propagates the error and returns nothing.
C6_IOErrorsPropagate ==
    (pc = "done" /\ ioerr) => (exc = "OSError" /\ ret = "none")

(* The demultiplexed FASTA claim, stated on the stream *)

Whitespace == {" ", "\t", "\n"}

\* the run of non-whitespace characters directly after the first character
RunAfterFirst(line) ==
    LET m == CHOOSE k \in 1..Len(line) :
                 /\ \A i \in 2..k : line[i] \notin Whitespace
                 /\ (k = Len(line) \/ line[k + 1] \in Whitespace)
    IN SubSeq(line, 2, m)

\* <sample-id>_<seq-id>: the rightmost underscore has text on both sides
HasSampleAndSeqId(id) ==
    \E i \in 2..(Len(id) - 1) :
        id[i] = "_" /\ \A k \in (i + 1)..Len(id) : id[k] # "_"

\* the text of a line up to its newline
Body(line) ==
    IF line # <<>> /\ line[Len(line)] = "\n" THEN SubSeq(line, 1, Len(line) - 1) ELSE line

\* records are pairs of lines; the scanned ones are the first 30
ScannedRecords(s) == 1..Min((Len(s) + 1) \div 2, SniffNumRecords)

HeaderOf(s, j) == s[2 * j - 1]

\* record j passes the checks that concern it alone
RecordWellFormed(s, j) ==
    /\ 2 * j <= Len(s)
    /\ HeaderOf(s, j)[1] = ">"
    /\ HasSampleAndSeqId(RunAfterFirst(HeaderOf(s, j)))
    /\ Body(s[2 * j]) # <<>>
    /\ \A i \in 1..Len(Body(s[2 * j])) : Body(s[2 * j])[i] \in DNAAlphabet

CleanPrefix(s) ==
    /\ s # <<>>
    /\ \A j \in ScannedRecords(s) : RecordWellFormed(s, j)
    /\ \A j, k \in ScannedRecords(s) :
           j < k => RunAfterFirst(HeaderOf(s, j)) # RunAfterFirst(HeaderOf(s, k))

\* C7: QIIME1DemuxFormat.sniff returns true exactly when the first 30
\* two-line records are clean (at least one record, both lines present,
\* header starting with '>', no repeated record-id, every record-id of the
\* form <sample-id>_<seq-id>, every sequence non-empty valid DNA), false in
\* every other case; and the seen-set holds exactly the record-ids of the
\* records processed so far that passed all their checks.
C7_CleanPrefixDecides ==
    (IsDemux /\ pc # "open") =>
        /\ pc = "done" => (exc = "none" /\ ret = Bool(CleanPrefix(fh)))
        /\ ids = { RunAfterFirst(HeaderOf(fh, j)) :
                     j \in {k \in 1..n : RecordWellFormed(fh, k)} }

C7_Witness ==
    /\ IsDemux /\ pc = "done" /\ ret = "True"
    /\ Len(fh) = 2 * SniffNumRecords + 2
    /\ ~RecordWellFormed(fh, SniffNumRecords + 1)
    /\ Cardinality(ids) = SniffNumRecords

\* C8: the record-id is the non-whitespace run directly after '>' (empty
\* when whitespace or nothing follows '>'), and _validate_id accepts it if
\* and only if its rightmost underscore has a non-empty part on each side.
C8_RightmostUnderscore ==
    (IsDemux /\ pc = "id_done") =>
        /\ out = RunAfterFirst(args)
        /\ (exc = "none") <=> HasSampleAndSeqId(out)

C8_Witness ==
    /\ IsDemux /\ pc = "id_done" /\ exc = "none"
    /\ out = <<"a", "_", "b", "_", "0">> /\ Len(args) > 6

\* a (sample-id, barcode-id, lane-number, read-number) the layout can hold:
\* non-empty ids, a lane of at most three digits, read 1 or 2
ValidPathArgs(a) ==
    /\ a[1] # <<>> /\ a[2] # <<>>
    /\ a[3] \in 0..999
    /\ a[4] \in {1, 2}

\* the text between "_L" and "_R" of a built name
LaneText(a, name) == SubSeq(name, Len(a[1]) + Len(a[2]) + 4, Len(name) - 16)

RECURSIVE DecimalValue(_)
DecimalValue(t) ==
    IF t = <<>> THEN 0
    ELSE 10 * DecimalValue(SubSeq(t, 1, Len(t) - 1))
         + (CHOOSE d \in 0..9 : Digit[d + 1] = t[Len(t)])

\* C9: for every valid (sample-id, barcode-id, lane-number, read-number) the
\* name built by sequences_path_maker matches the collection's regex, and
\* the lane is rendered as exactly 3 digits.
C9_BuiltNameMatches ==
    (IsCasava /\ pc = "path_made" /\ ValidPathArgs(args)) =>
        /\ sequences_pathspec(out)
        /\ Len(LaneText(args, out)) = 3
        /\ \A i \in 1..3 : LaneText(args, out)[i] \in DigitChars
        /\ DecimalValue(LaneText(args, out)) = args[3]

C9_Witness ==
    /\ IsCasava /\ pc = "path_made" /\ ValidPathArgs(args)
    /\ args[3] = 7 /\ args[1] = <<"a", "_">>
    /\ LaneText(args, out) = <<"0", "0", "7">>

====
